---------------------------- MODULE Spec2Model ----------------------------
(***************************************************************************)
(* Openframe frame software: the child-process supervisor                  *)
(* (src/process-manager.js) and the frame controller's artwork hand-off    *)
(* (src/controller.js, fc.changeArtwork) and start-up chain                *)
(* (fc.init: buildRestClient, login, connect, ready).                      *)
(*                                                                         *)
(* JavaScript strings that are later split on ' ' are represented by the   *)
(* result of that split (a sequence of tokens): s.split(' ') of            *)
(* a + ' ' + b is the concatenation of the splits of a and b.              *)
(***************************************************************************)
EXTENDS Integers, Sequences, FiniteSets, TLC

\* ----------------------------------------------------------------- bounds
MaxPid == 2
MaxStack == 3
MaxCalls == 5
MaxSwitches == 2

\* ------------------------------------------------------ JavaScript values
\* child.pid of a child whose spawn failed (process-manager.js:26,28)
UNDEFINED == -1
\* the value getCurrentProcess returns for an empty stack
NULL == -2

Pids == 1..MaxPid

\* JavaScript truthiness of a pid-valued expression: `if (cur_proc)`
Truthy(v) == v # UNDEFINED /\ v # NULL /\ v # 0

\* property-key coercion of processes[pid] / delete processes[pid]
Key(pid) == IF pid = UNDEFINED THEN "undefined" ELSE ToString(pid)

\* Array.prototype.indexOf (1-based here; 0 stands for JavaScript's -1)
IndexOf(s, x) ==
    IF \E i \in 1..Len(s) : s[i] = x
    THEN CHOOSE i \in 1..Len(s) : s[i] = x /\ \A j \in 1..(i - 1) : s[j] # x
    ELSE 0

\* Array.prototype.splice(idx, 1)
Splice1(s, i) == SubSeq(s, 1, i - 1) \o SubSeq(s, i + 1, Len(s))

Range(s) == {s[i] : i \in 1..Len(s)}

\* `delete obj[k]`
Delete(f, k) == [x \in (DOMAIN f) \ {k} |-> f[x]]

\* `obj[k] = v`
Put(f, k, v) == [x \in (DOMAIN f) \cup {k} |-> IF x = k THEN v ELSE f[x]]

\* command strings used by direct callers of the supervisor
Commands == {<<"feh", "a.png">>, <<"omxplayer", "b.mp4">>, <<"nosuchbin">>}

VARIABLES
    processes,      \* process-manager.js:13  key -> child
    processStack,   \* process-manager.js:14  array of pids
    alive,          \* pids of the spawned process groups still running
    errPending,     \* an 'error' event of a failed spawn is queued for the next tick
    crashed,        \* the node process died of an uncaught exception
    last,           \* the last supervisor call: arguments, outcome, state before it
    nStarts,        \* startProcess calls that returned
    nKills,         \* killProcess calls on a pid that was in the mapping
    api,            \* the exported function the last caller invoked
    usedCmds,       \* the commands passed to startProcess so far
    repeatCmd,      \* some command was passed to startProcess twice
    frameArtwork,   \* fc.config.ofrc.frame._current_artwork (an artwork id)
    current_artwork,\* fc.current_artwork (an artwork id)
    switches,       \* the changeArtwork invocations: artwork, curArt, stage, file.path
    log,            \* the calls made by changeArtwork, in order
    callerSaw,      \* what each changeArtwork call gave its caller: returned / threw
    pc,             \* where the promise chain of fc.init stands
    frame,          \* fc.config.ofrc.frame: id, name, plugins
    creds,          \* fc.config.ofrc.auth.access_token
    auth,           \* client.clientAuthorizations holds the access_token
    userId,         \* the value login resolved with
    connLog         \* requests, responses and calls of the start-up chain, in order

pmVars == <<processes, processStack, alive, errPending, crashed, last, nStarts, nKills,
            api, usedCmds, repeatCmd>>

fcVars == <<frameArtwork, current_artwork, switches, log, callerSaw>>

connVars == <<pc, frame, creds, auth, userId, connLog>>

vars == <<processes, processStack, alive, errPending, crashed, last, nStarts, nKills,
          api, usedCmds, repeatCmd, frameArtwork, current_artwork, switches, log,
          callerSaw, pc, frame, creds, auth, userId, connLog>>

\* the value of an artwork pointer that is not set
NoArt == "none"

\* a DeviceRecord field or token that is not set
NoId == "none"
NoPlugins == [n \in {} |-> ""]

\* the plugins map registerNewFrame sends
SeedPlugins ==
    [n \in {"openframe-pluginexample"} |->
        "git+https://git@github.com/OpenframeProject/Openframe-PluginExample.git"]

NoCall == [op |-> "none", pid |-> NULL, raised |-> FALSE, signal |-> "none",
           stack |-> <<>>, procs |-> <<>>]

InitSupervisor ==
    /\ processes = <<>>
    /\ processStack = <<>>
    /\ alive = {}
    /\ errPending = FALSE
    /\ crashed = FALSE
    /\ last = NoCall
    /\ nStarts = 0
    /\ nKills = 0
    /\ api = "none"
    /\ usedCmds = {}
    /\ repeatCmd = FALSE
    /\ frameArtwork = NoArt
    /\ current_artwork = NoArt
    /\ switches = <<>>
    /\ log = <<>>
    /\ callerSaw = <<>>

Init ==
    /\ InitSupervisor
    /\ pc = "idle"
    /\ frame = [id |-> NoId, name |-> "lobby", plugins |-> NoPlugins]
    /\ creds = NoId
    /\ auth = FALSE
    /\ userId = NoId
    /\ connLog = <<>>

\* What child_process.spawn can do: start the process (a pid no running
\* process has), fail at run time (ENOENT: the child has no pid and an
\* 'error' event is emitted on the next tick), or throw synchronously.
SpawnResults ==
    [kind : {"ok"}, pid : Pids \ alive]
        \cup {[kind |-> "error", pid |-> UNDEFINED], [kind |-> "throw", pid |-> UNDEFINED]}

\* variant: reads the most recently pushed pid
getCurrentProcess_Top ==
    IF Len(processStack) # 0 THEN processStack[Len(processStack)] ELSE NULL

\* getCurrentProcess(): the pid at index 0, or null
getCurrentProcess ==
    IF Len(processStack) # 0 THEN processStack[1] ELSE NULL

\* startProcess(command) with spawn outcome r
startProcess(command, r) ==
    LET command_bin == Head(command)
        command_args == Tail(command)
        child == [pid |-> r.pid, spawnfile |-> command_bin, spawnargs |-> command_args]
    IN  IF r.kind = "throw"
        THEN /\ UNCHANGED <<processes, processStack, alive, errPending, nStarts, nKills,
                          usedCmds, repeatCmd>>
             /\ last' = [op |-> "startProcess", pid |-> r.pid, raised |-> TRUE,
                         signal |-> "none", stack |-> processStack,
                         procs |-> processes]
        ELSE /\ processes' = Put(processes, Key(child.pid), child)
             /\ processStack' = Append(processStack, child.pid)
             /\ alive' = IF r.kind = "ok" THEN alive \cup {r.pid} ELSE alive
             /\ errPending' = (errPending \/ r.kind = "error")
             /\ nStarts' = nStarts + 1
             /\ usedCmds' = usedCmds \cup {command}
             /\ repeatCmd' = (repeatCmd \/ command \in usedCmds)
             /\ UNCHANGED nKills
             /\ last' = [op |-> "startProcess", pid |-> r.pid, raised |-> FALSE,
                         signal |-> "none", stack |-> processStack,
                         procs |-> processes]

\* process.kill(-pid): delivers the signal to a running group, throws otherwise
\* (ESRCH for a group that is gone, TypeError for -undefined = NaN)
Signal(pid) == IF pid \in alive THEN "sent" ELSE "threw"

\* variant: splice without the `stack_idx !== -1` test; splice(-1, 1) removes
\* the last element
killProcess_NoIndexTest(pid) ==
    LET stack_idx == IndexOf(processStack, pid)
    IN  /\ processes' = Delete(processes, Key(pid))
        /\ processStack' = IF stack_idx # 0 THEN Splice1(processStack, stack_idx)
                           ELSE Splice1(processStack, Len(processStack))
        /\ nKills' = IF Key(pid) \in DOMAIN processes THEN nKills + 1 ELSE nKills
        /\ last' = [op |-> "killProcess", pid |-> pid, raised |-> FALSE,
                    signal |-> Signal(pid), stack |-> processStack,
                    procs |-> processes]
        /\ UNCHANGED <<alive, errPending, nStarts, usedCmds, repeatCmd>>

\* killProcess(pid)
killProcess(pid) ==
    LET stack_idx == IndexOf(processStack, pid)
    IN  /\ processes' = Delete(processes, Key(pid))
        /\ processStack' = IF stack_idx # 0 THEN Splice1(processStack, stack_idx)
                           ELSE processStack
        /\ nKills' = IF Key(pid) \in DOMAIN processes THEN nKills + 1 ELSE nKills
        /\ last' = [op |-> "killProcess", pid |-> pid, raised |-> FALSE,
                    signal |-> Signal(pid), stack |-> processStack,
                    procs |-> processes]
        /\ UNCHANGED <<alive, errPending, nStarts, usedCmds, repeatCmd>>

\* killCurrentProcess()
killCurrentProcess ==
    LET cur_proc == getCurrentProcess
    IN  IF Truthy(cur_proc)
        THEN killProcess(cur_proc)
        ELSE /\ last' = [op |-> "killCurrentProcess", pid |-> cur_proc, raised |-> FALSE,
                         signal |-> "none", stack |-> processStack,
                         procs |-> processes]
             /\ UNCHANGED <<processes, processStack, alive, errPending, nStarts, nKills,
                            usedCmds, repeatCmd>>

Running == ~crashed
Budget == nStarts + nKills < MaxCalls

\* a caller invokes exports.startProcess
StartProcess ==
    /\ Running /\ Budget
    /\ Len(processStack) < MaxStack
    /\ \E command \in Commands, r \in SpawnResults : startProcess(command, r)
    /\ api' = "startProcess"
    /\ UNCHANGED <<crashed, fcVars, connVars>>

\* a caller invokes exports.killProcess
KillProcess ==
    /\ Running /\ Budget
    /\ \E pid \in Pids \cup {UNDEFINED} : killProcess(pid)
    /\ api' = "killProcess"
    /\ UNCHANGED <<crashed, fcVars, connVars>>

\* a caller invokes exports.killCurrentProcess
KillCurrentProcess ==
    /\ Running /\ Budget
    /\ killCurrentProcess
    /\ api' = "killCurrentProcess"
    /\ UNCHANGED <<crashed, fcVars, connVars>>

\* a spawned process group exits (by itself or after a signal); the 'close'
\* handler only logs
ChildClose ==
    /\ Running
    /\ \E pid \in alive : alive' = alive \ {pid}
    /\ UNCHANGED <<processes, processStack, errPending, crashed, last, nStarts, nKills,
                   api, usedCmds, repeatCmd, fcVars, connVars>>

\* next tick after a failed spawn: 'error' is emitted on a child that has no
\* 'error' listener, which throws out of the event loop
ErrorTick ==
    /\ Running
    /\ errPending
    /\ crashed' = TRUE
    /\ errPending' = FALSE
    /\ UNCHANGED <<processes, processStack, alive, last, nStarts, nKills,
                   api, usedCmds, repeatCmd, fcVars, connVars>>

NextPM ==
    \/ StartProcess
    \/ KillProcess
    \/ KillCurrentProcess
    \/ ChildClose
    \/ ErrorTick

SpecPM == Init /\ [][NextPM]_vars

\* ------------------------------------------------------------------------
\* Frame controller: fc.changeArtwork
\* ------------------------------------------------------------------------

\* an end_command that the artwork's format does not define
NoCommand == <<>>

\* the artworks the server can assign (ids stand for the object references)
Artworks ==
    [a1 |-> [_id |-> "a1", url |-> "http://h/a.png",
             _format |-> [start_command |-> <<"feh", "-F">>,
                          end_command |-> <<"pkill", "feh">>, download |-> FALSE]],
     a2 |-> [_id |-> "a2", url |-> "http://h/b.mp4",
             _format |-> [start_command |-> <<"omxplayer">>,
                          end_command |-> <<"pkill", "omxplayer">>, download |-> TRUE]],
     a3 |-> [_id |-> "a3", url |-> "http://h/c.html",
             _format |-> [start_command |-> <<"chromium", "--kiosk">>,
                          end_command |-> NoCommand, download |-> FALSE]]]

ArtIds == DOMAIN Artworks

\* path.basename(url.parse(u).pathname)
Basename(u) ==
    CASE u = "http://h/a.png" -> "a.png"
      [] u = "http://h/b.mp4" -> "b.mp4"
      [] u = "http://h/c.html" -> "c.html"

\* file.path of a finished download
LocalPaths == {"/var/dl/a2b.mp4", "/tmp/dl/a2b.mp4"}

\* variant: the command of a downloaded artwork built from its URL
DownloadCommand_Url(artwork, file) == artwork._format.start_command \o <<artwork.url>>

\* artwork._format.start_command + ' ' + file.path
DownloadCommand(artwork, file) == artwork._format.start_command \o <<file.path>>

\* variant: the command of a streamed artwork built from the file name
UrlCommand_Basename(artwork) == artwork._format.start_command \o <<Basename(artwork.url)>>

\* artwork._format.start_command + ' ' + artwork.url
UrlCommand(artwork) == artwork._format.start_command \o <<artwork.url>>

Event(sw, ev, cmd) == [sw |-> sw, ev |-> ev, cmd |-> cmd]

\* variant: the viewer is started before the outgoing end_command is run
startArt_StartFirst(sw, sws, command, r) ==
    LET artwork == sws[sw].artwork
        curArt == sws[sw].curArt
        ends == IF curArt # NoArt /\ Artworks[curArt]._format.end_command # NoCommand
                THEN <<Event(sw, "exec", Artworks[curArt]._format.end_command)>>
                ELSE <<>>
    IN  /\ startProcess(command, r)
        /\ UNCHANGED <<crashed, api>>
        /\ IF r.kind = "throw"
           THEN /\ log' = Append(log, Event(sw, "start", command))
                /\ switches' = [sws EXCEPT ![sw].stage = "threw"]
                /\ UNCHANGED current_artwork
           ELSE /\ log' = Append(Append(log, Event(sw, "start", command)),
                                 Event(sw, "set", <<artwork>>)) \o ends
                /\ switches' = [sws EXCEPT ![sw].stage = "done"]
                /\ current_artwork' = artwork

\* variant: the current-artwork pointer is not updated after the start
startArt_NoSet(sw, sws, command, r) ==
    LET artwork == sws[sw].artwork
        curArt == sws[sw].curArt
    IN  IF curArt # NoArt
        THEN IF Artworks[curArt]._format.end_command = NoCommand
             THEN /\ switches' = [sws EXCEPT ![sw].stage = "threw"]
                  /\ log' = log
                  /\ UNCHANGED <<pmVars, current_artwork>>
             ELSE /\ log' = Append(log, Event(sw, "exec", Artworks[curArt]._format.end_command))
                  /\ switches' = [sws EXCEPT ![sw].stage = "done"]
                  /\ UNCHANGED <<pmVars, current_artwork>>
        ELSE /\ startProcess(command, r)
             /\ UNCHANGED <<crashed, api>>
             /\ log' = Append(log, Event(sw, "start", command))
             /\ switches' = [sws EXCEPT ![sw].stage =
                                IF r.kind = "throw" THEN "threw" ELSE "done"]
             /\ UNCHANGED current_artwork

\* startArt(command) of invocation sw, whose closure holds artwork and
\* curArt; sws is the table of invocations with sw's entry in it.
\* proc_man.exec takes one parameter: the function passed as the second
\* argument is never called.
startArt(sw, sws, command, r) ==
    LET artwork == sws[sw].artwork
        curArt == sws[sw].curArt
    IN  IF curArt # NoArt
        THEN IF Artworks[curArt]._format.end_command = NoCommand
             THEN \* child_process.exec(undefined) throws
                  /\ switches' = [sws EXCEPT ![sw].stage = "threw"]
                  /\ log' = log
                  /\ UNCHANGED <<pmVars, current_artwork>>
             ELSE /\ log' = Append(log, Event(sw, "exec", Artworks[curArt]._format.end_command))
                  /\ switches' = [sws EXCEPT ![sw].stage = "done"]
                  /\ UNCHANGED <<pmVars, current_artwork>>
        ELSE /\ startProcess(command, r)
             /\ UNCHANGED <<crashed, api>>
             /\ IF r.kind = "throw"
                THEN /\ log' = Append(log, Event(sw, "start", command))
                     /\ switches' = [sws EXCEPT ![sw].stage = "threw"]
                     /\ UNCHANGED current_artwork
                ELSE /\ log' = Append(Append(log, Event(sw, "start", command)),
                                      Event(sw, "set", <<artwork>>))
                     /\ switches' = [sws EXCEPT ![sw].stage = "done"]
                     /\ current_artwork' = artwork

\* the frame record is replaced by the one the server returned
FrameUpdate ==
    /\ Running
    /\ \E a \in ArtIds \ {frameArtwork} : frameArtwork' = a
    /\ UNCHANGED <<pmVars, current_artwork, switches, log, callerSaw, connVars>>

\* fc.changeArtwork(), up to the point where it returns (it returns nothing:
\* the caller sees a normal return, or the exception startArt threw)
changeArtwork ==
    LET artwork == frameArtwork
        curArt == current_artwork
        sw == Len(switches) + 1
        sws == Append(switches, [artwork |-> artwork, curArt |-> curArt,
                                 stage |-> "fetching", file |-> ""])
    IN  IF Artworks[artwork]._format.download
        THEN LET file_name == Basename(Artworks[artwork].url)
             IN  /\ log' = Append(log, Event(sw, "fetch",
                              <<Artworks[artwork].url, Artworks[artwork]._id \o file_name>>))
                 /\ switches' = sws
                 /\ callerSaw' = Append(callerSaw, "returned")
                 /\ UNCHANGED <<pmVars, current_artwork>>
        ELSE /\ \E r \in SpawnResults :
                    startArt(sw, sws, UrlCommand(Artworks[artwork]), r)
             /\ callerSaw' = Append(callerSaw,
                    IF switches'[sw].stage = "threw" THEN "threw" ELSE "returned")

\* some caller invokes fc.changeArtwork
ChangeArtwork ==
    /\ Running
    /\ frameArtwork # NoArt
    /\ Len(switches) < MaxSwitches
    /\ changeArtwork
    /\ UNCHANGED <<frameArtwork, connVars>>

\* the promise of downloader.downloadFile resolves with file
DownloadResolve ==
    /\ Running
    /\ \E sw \in 1..Len(switches), path \in LocalPaths, r \in SpawnResults :
          /\ switches[sw].stage = "fetching"
          /\ LET file == [path |-> path]
                 command == DownloadCommand(Artworks[switches[sw].artwork], file)
             IN  startArt(sw, [switches EXCEPT ![sw].file = file.path], command, r)
    /\ UNCHANGED <<frameArtwork, callerSaw, connVars>>

\* the promise of downloader.downloadFile rejects: no rejection handler
DownloadReject ==
    /\ Running
    /\ \E sw \in 1..Len(switches) :
          /\ switches[sw].stage = "fetching"
          /\ switches' = [switches EXCEPT ![sw].stage = "fetchFailed"]
    /\ UNCHANGED <<pmVars, frameArtwork, current_artwork, log, callerSaw, connVars>>

NextFC ==
    \/ FrameUpdate
    \/ ChangeArtwork
    \/ DownloadResolve
    \/ DownloadReject
    \/ ChildClose
    \/ ErrorTick

SpecFC == Init /\ [][NextFC]_vars

\* ------------------------------------------------------------------------
\* Frame controller: start-up chain
\*   buildRestClient().then(login).then(connect).then(ready).catch(debug)
\* A settled promise runs its handlers before any other event is handled, so
\* each action below is one response together with the handlers it triggers.
\* config.save() and pubsub.init() are calls whose result is not used.
\* ------------------------------------------------------------------------

\* an entry of connLog
Blank == [ev |-> "", id |-> NoId, user |-> NoId, name |-> "", plugins |-> NoPlugins,
          art |-> NoArt, armed |-> FALSE]

\* the entry for a DeviceRecord d received or stored
Rec(ev, d) == [Blank EXCEPT !.ev = ev, !.id = d.id, !.name = d.name,
                            !.plugins = d.plugins, !.art = d.art]

\* the DeviceRecords .ofrc can hold when the controller starts
LocalFrames == [id : {NoId, "f1"}, name : {"lobby"}, plugins : {NoPlugins, SeedPlugins}]

\* resp.obj of a successful login: the token may be missing
LoginResponses == [id : {"tok", NoId}, userId : {"u1"}]

\* data.obj of Frame_findById
FindResponses(id) ==
    [id : {id}, name : {"lobby", "hall"}, plugins : {SeedPlugins},
     art : {NoArt, "a1", "a2"}]

\* data.obj of OpenframeUser_prototype_create_frames
CreateResponses(data) ==
    [id : {"f2"}, name : {data.name}, plugins : {data.plugins}, art : {NoArt, "a1", "a2"}]

InitConn ==
    /\ InitSupervisor
    /\ pc = "idle"
    /\ frame \in LocalFrames
    /\ creds = NoId
    /\ auth = FALSE
    /\ userId = NoId
    /\ connLog = <<>>

\* variant: the new record is created under the id of the local record
registerNewFrame_KeepsId(uid, lg) ==
    /\ connLog' = Append(lg, [Blank EXCEPT !.ev = "create", !.id = frame.id, !.user = uid,
                                           !.name = frame.name, !.plugins = SeedPlugins,
                                           !.armed = auth'])
    /\ pc' = "registering"

\* fc.registerNewFrame(userId) up to the request; lg is the log so far
registerNewFrame(uid, lg) ==
    /\ connLog' = Append(lg, [Blank EXCEPT !.ev = "create", !.user = uid,
                                           !.name = frame.name, !.plugins = SeedPlugins,
                                           !.armed = auth'])
    /\ pc' = "registering"

\* variant: the lookup is made whether or not the local record has an id
connect_AlwaysFind(uid, lg) ==
    /\ connLog' = Append(lg, [Blank EXCEPT !.ev = "findById", !.id = frame.id,
                                           !.armed = auth'])
    /\ pc' = "finding"

\* variant: the frame is registered without looking it up first
connect_SkipsResolve(uid, lg) == registerNewFrame(uid, lg)

\* fc.connect(userId) up to the first request: fc.updateFrame() looks the
\* frame up if it has an id and rejects at once otherwise, and the rejection
\* handler of connect registers a new frame
connect(uid, lg) ==
    IF frame.id # NoId
    THEN /\ connLog' = Append(lg, [Blank EXCEPT !.ev = "findById", !.id = frame.id,
                                                !.armed = auth'])
         /\ pc' = "finding"
    ELSE registerNewFrame(uid, lg)

\* fc.ready()
ready ==
    IF frameArtwork # NoArt
    THEN changeArtwork
    ELSE UNCHANGED <<pmVars, current_artwork, switches, log, callerSaw>>

\* readyToConnect() of fc.connect, then the next link of the chain of fc.init
readyToConnect(lg) ==
    /\ connLog' = lg \o <<[Blank EXCEPT !.ev = "pubsub.init"], [Blank EXCEPT !.ev = "ready"]>>
    /\ pc' = "connected"
    /\ ready

\* fc.init()
InitCall ==
    /\ Running
    /\ pc = "idle"
    /\ pc' = "building"
    /\ connLog' = Append(connLog, Rec("init", [id |-> frame.id, name |-> frame.name,
                                               plugins |-> frame.plugins,
                                               art |-> frameArtwork]))
    /\ UNCHANGED <<pmVars, fcVars, frame, creds, auth, userId>>

\* the swagger client is built: fc.login(client) sends the credentials
BuildResolve ==
    /\ Running
    /\ pc = "building"
    /\ pc' = "loggingIn"
    /\ connLog' = Append(connLog, [Blank EXCEPT !.ev = "login", !.armed = auth])
    /\ UNCHANGED <<pmVars, fcVars, frame, creds, auth, userId>>

\* the swagger client cannot be built
BuildReject ==
    /\ Running
    /\ pc = "building"
    /\ pc' = "failed"
    /\ connLog' = Append(connLog, [Blank EXCEPT !.ev = "build:rejected"])
    /\ UNCHANGED <<pmVars, fcVars, frame, creds, auth, userId>>

\* OpenframeUser_login resolves: the token is stored if there is one, login
\* resolves with the user id and connect starts
LoginResolve ==
    /\ Running
    /\ pc = "loggingIn"
    /\ \E resp \in LoginResponses :
          /\ creds' = IF resp.id # NoId THEN resp.id ELSE creds
          /\ auth' = (auth \/ resp.id # NoId)
          /\ userId' = resp.userId
          /\ connect(resp.userId,
                     Append(connLog, [Blank EXCEPT !.ev = "login:resolved",
                                                   !.id = resp.id, !.user = resp.userId]))
    /\ UNCHANGED <<pmVars, fcVars, frame>>

\* variant: a failed login is tried again
LoginReject_Retries ==
    /\ Running
    /\ pc = "loggingIn"
    /\ Len(connLog) < 8
    /\ pc' = "loggingIn"
    /\ connLog' = connLog \o <<[Blank EXCEPT !.ev = "login:rejected"],
                               [Blank EXCEPT !.ev = "login", !.armed = auth]>>
    /\ UNCHANGED <<pmVars, fcVars, frame, creds, auth, userId>>

\* variant: the chain goes on to connect after a failed login
LoginReject_Continues ==
    /\ Running
    /\ pc = "loggingIn"
    /\ UNCHANGED <<pmVars, fcVars, frame, creds, auth, userId>>
    /\ connect(userId, Append(connLog, [Blank EXCEPT !.ev = "login:rejected"]))

\* OpenframeUser_login rejects: login rejects and the chain of fc.init skips
\* to its catch
LoginReject ==
    /\ Running
    /\ pc = "loggingIn"
    /\ pc' = "failed"
    /\ connLog' = Append(connLog, [Blank EXCEPT !.ev = "login:rejected"])
    /\ UNCHANGED <<pmVars, fcVars, frame, creds, auth, userId>>

\* variant: the record found is not stored as the local record
FindResolve_KeepsLocal ==
    /\ Running
    /\ pc = "finding"
    /\ \E data \in FindResponses(frame.id) :
          /\ connLog' = connLog \o <<Rec("findById:resolved", data), Rec("save", data),
                                     [Blank EXCEPT !.ev = "install", !.plugins = data.plugins]>>
    /\ pc' = "installing"
    /\ UNCHANGED <<pmVars, fcVars, frame, creds, auth, userId>>

\* Frame_findById resolves: the record replaces the local one, is saved, and
\* the plugins are installed
FindResolve ==
    /\ Running
    /\ pc = "finding"
    /\ \E data \in FindResponses(frame.id) :
          /\ frame' = [id |-> data.id, name |-> data.name, plugins |-> data.plugins]
          /\ frameArtwork' = data.art
          /\ connLog' = connLog \o <<Rec("findById:resolved", data), Rec("save", data),
                                     [Blank EXCEPT !.ev = "install", !.plugins = data.plugins]>>
    /\ pc' = "installing"
    /\ UNCHANGED <<pmVars, current_artwork, switches, log, callerSaw, creds, auth, userId>>

\* Frame_findById rejects: updateFrame rejects and connect registers
FindReject ==
    /\ Running
    /\ pc = "finding"
    /\ UNCHANGED <<pmVars, fcVars, frame, creds, auth, userId>>
    /\ registerNewFrame(userId, Append(connLog, [Blank EXCEPT !.ev = "findById:rejected"]))

\* the create request resolves: the record replaces the local one, is saved,
\* and the plugins are installed
CreateResolve ==
    /\ Running
    /\ pc = "registering"
    /\ \E data \in CreateResponses(connLog[Len(connLog)]) :
          /\ frame' = [id |-> data.id, name |-> data.name, plugins |-> data.plugins]
          /\ frameArtwork' = data.art
          /\ connLog' = connLog \o <<Rec("create:resolved", data), Rec("save", data),
                                     [Blank EXCEPT !.ev = "install", !.plugins = data.plugins]>>
    /\ pc' = "installing"
    /\ UNCHANGED <<pmVars, current_artwork, switches, log, callerSaw, creds, auth, userId>>

\* variant: a failed registration is treated as ready to connect
CreateReject_Connects ==
    /\ Running
    /\ pc = "registering"
    /\ UNCHANGED <<frame, frameArtwork, creds, auth, userId>>
    /\ readyToConnect(Append(connLog, [Blank EXCEPT !.ev = "create:rejected"]))

\* the create request rejects: registerNewFrame and connect reject, and the
\* chain of fc.init skips to its catch
CreateReject ==
    /\ Running
    /\ pc = "registering"
    /\ pc' = "failed"
    /\ connLog' = connLog \o <<[Blank EXCEPT !.ev = "create:rejected"],
                               [Blank EXCEPT !.ev = "connect:rejected"]>>
    /\ UNCHANGED <<pmVars, fcVars, frame, creds, auth, userId>>

\* pm.installPlugins resolves: fc.initPlugins is called (its promise is
\* dropped), updatePlugins resolves, and updateFrame or registerNewFrame
\* resolves with the frame
InstallResolve ==
    /\ Running
    /\ pc = "installing"
    /\ UNCHANGED <<frame, frameArtwork, creds, auth, userId>>
    /\ readyToConnect(connLog \o <<[Blank EXCEPT !.ev = "install:resolved"],
                                   [Blank EXCEPT !.ev = "initPlugins",
                                                 !.plugins = frame.plugins]>>)

\* pm.installPlugins rejects: updatePlugins rejects, and nothing handles
\* that: the promise of updateFrame or registerNewFrame never settles
InstallReject ==
    /\ Running
    /\ pc = "installing"
    /\ pc' = "stalled"
    /\ connLog' = Append(connLog, [Blank EXCEPT !.ev = "install:rejected"])
    /\ UNCHANGED <<pmVars, fcVars, frame, creds, auth, userId>>

NextConn ==
    \/ InitCall
    \/ BuildResolve
    \/ BuildReject
    \/ LoginResolve
    \/ LoginReject
    \/ FindResolve
    \/ FindReject
    \/ CreateResolve
    \/ CreateReject
    \/ InstallResolve
    \/ InstallReject
    \/ DownloadResolve
    \/ DownloadReject
    \/ ChildClose
    \/ ErrorTick

SpecConn == InitConn /\ [][NextConn]_vars

\* ------------------------------------------------------------------------
\* Process supervisor: properties
\* ------------------------------------------------------------------------

\* the pid was neither a key of the mapping nor in the sequence before the call
UntrackedBefore(c) == Key(c.pid) \notin DOMAIN c.procs /\ c.pid \notin Range(c.stack)

\* C1: in every reachable state every pid of processStack has an entry in
\* processes and every key of processes is the key of a pid of processStack.
C1_StackMatchesMapping ==
    /\ \A i \in 1..Len(processStack) : Key(processStack[i]) \in DOMAIN processes
    /\ \A k \in DOMAIN processes : \E i \in 1..Len(processStack) : Key(processStack[i]) = k

\* C2: as long as the start calls had distinct commands, the number of
\* entries of the mapping is the number of start calls (that returned) minus
\* the number of kill calls on pids of the mapping.
C2_CountMatches ==
    ~repeatCmd => Cardinality(DOMAIN processes) = nStarts - nKills

\* C3: after killProcess(pid) the pid is in neither the mapping nor the
\* sequence, whatever process.kill did, and nothing was raised; killing the
\* same pid again changes nothing.
C3_KillRemoves ==
    /\ [](last.op = "killProcess" =>
            /\ Key(last.pid) \notin DOMAIN processes
            /\ last.pid \notin Range(processStack)
            /\ ~last.raised)
    /\ [][(last.op = "killProcess" /\ last'.op = "killProcess" /\ last'.pid = last.pid)
            => (processes' = processes /\ processStack' = processStack)]_vars

\* C4: killProcess on a pid the supervisor does not track raises nothing and
\* leaves the sequence and the mapping as they were.
C4_KillUnknownIsNoOp ==
    (last.op = "killProcess" /\ UntrackedBefore(last)) =>
        /\ processStack = last.stack
        /\ processes = last.procs
        /\ ~last.raised

C4_Witness ==
    /\ last.op = "killProcess"
    /\ UntrackedBefore(last)
    /\ Len(last.stack) >= 2
    /\ last.pid \in Pids
    /\ processStack = last.stack

C6_KillCurrentKillsHead ==
    api = "killCurrentProcess" =>
        IF last.stack # <<>>
        THEN /\ processStack = Tail(last.stack)
             /\ processes = Delete(last.procs, Key(Head(last.stack)))
        ELSE /\ processStack = last.stack
             /\ processes = last.procs

\* ------------------------------------------------------------------------
\* Artwork hand-off: properties
\* ------------------------------------------------------------------------

\* positions of the events ev of invocation sw in the log
Idx(sw, ev) == {i \in 1..Len(log) : log[i].sw = sw /\ log[i].ev = ev}

\* cmd is pre followed by at least one more token
BeginsWith(cmd, pre) == Len(cmd) > Len(pre) /\ SubSeq(cmd, 1, Len(pre)) = pre

Switches == 1..Len(switches)

\* the log ends with the assignment of the pointer it records
PointerFollowsLog ==
    (log # <<>> /\ log[Len(log)].ev = "set") => current_artwork = log[Len(log)].cmd[1]

\* C7: an invocation made while an artwork is displayed dispatches that
\* artwork's end_command when it reaches startArt, and every startProcess it
\* issues comes after that dispatch.
C7_EndBeforeStart ==
    \A sw \in Switches :
        switches[sw].curArt # NoArt =>
            LET end == Artworks[switches[sw].curArt]._format.end_command
            IN  /\ \A j \in Idx(sw, "start") :
                       \E i \in Idx(sw, "exec") : i < j /\ log[i].cmd = end
                /\ switches[sw].stage = "done" =>
                       \E i \in Idx(sw, "exec") : log[i].cmd = end

C7_Witness ==
    \E sw \in Switches :
        /\ switches[sw].curArt # NoArt
        /\ switches[sw].stage = "done"
        /\ Idx(sw, "exec") # {}

\* C8: an invocation made while an artwork is displayed, once its pipeline
\* has run to its end with the end_command dispatched, has called
\* startProcess after the dispatch and then set the pointer to its artwork.
C8_StartFollowsEnd ==
    \A sw \in Switches :
        (switches[sw].curArt # NoArt /\ switches[sw].stage = "done") =>
            \E i \in Idx(sw, "exec"), j \in Idx(sw, "start"), k \in Idx(sw, "set") :
                i < j /\ j < k /\ log[k].cmd = <<switches[sw].artwork>>

\* C9 as stated: an invocation made while no artwork is displayed, once it
\* is over, has dispatched no end_command and has called startProcess
\* exactly once with a command beginning with start_command, directly
\* followed by the assignment of the pointer to its artwork.
C9_StartsExactlyOnce ==
    \A sw \in Switches :
        (switches[sw].curArt = NoArt /\ switches[sw].stage # "fetching") =>
            /\ Idx(sw, "exec") = {}
            /\ Cardinality(Idx(sw, "start")) = 1
            /\ \A j \in Idx(sw, "start") :
                  /\ BeginsWith(log[j].cmd,
                                Artworks[switches[sw].artwork]._format.start_command)
                  /\ j + 1 \in Idx(sw, "set")
                  /\ log[j + 1].cmd = <<switches[sw].artwork>>

\* C9 amended: an invocation made while no artwork is displayed never
\* dispatches an end_command and calls startProcess at most once, always
\* with a command beginning with start_command; once its fetch (if any) has
\* succeeded it has called startProcess exactly once, and when that call
\* returned without throwing the pointer was set to its artwork.
C9_StartsOnceWhenFetched ==
    /\ PointerFollowsLog
    /\ \A sw \in Switches :
        switches[sw].curArt = NoArt =>
            /\ Idx(sw, "exec") = {}
            /\ Cardinality(Idx(sw, "start")) <= 1
            /\ \A j \in Idx(sw, "start") :
                  BeginsWith(log[j].cmd,
                             Artworks[switches[sw].artwork]._format.start_command)
            /\ switches[sw].stage \in {"done", "threw"} =>
                  Cardinality(Idx(sw, "start")) = 1
            /\ switches[sw].stage = "done" =>
                  \A j \in Idx(sw, "start") :
                      /\ j + 1 \in Idx(sw, "set")
                      /\ log[j + 1].cmd = <<switches[sw].artwork>>

C9_Witness ==
    \E sw \in Switches :
        /\ switches[sw].curArt = NoArt
        /\ switches[sw].stage = "done"
        /\ Cardinality(Idx(sw, "start")) = 1
        /\ current_artwork = switches[sw].artwork

\* C10: every startProcess of an invocation for an artwork with
\* download = true comes after that invocation's fetch of the artwork's url
\* under the name _id + basename, and its command is start_command followed
\* by the path the fetch returned, which is not the url.
C10_FetchBeforeStart ==
    \A sw \in Switches :
        LET artwork == Artworks[switches[sw].artwork]
        IN  artwork._format.download =>
                \A j \in Idx(sw, "start") :
                    /\ \E i \in Idx(sw, "fetch") :
                          /\ i < j
                          /\ log[i].cmd = <<artwork.url, artwork._id \o Basename(artwork.url)>>
                    /\ switches[sw].file \in LocalPaths
                    /\ log[j].cmd = artwork._format.start_command \o <<switches[sw].file>>
                    /\ log[j].cmd # artwork._format.start_command \o <<artwork.url>>

C10_Witness ==
    \E sw \in Switches :
        /\ Artworks[switches[sw].artwork]._format.download
        /\ switches[sw].stage = "done"
        /\ Idx(sw, "fetch") # {}
        /\ Idx(sw, "start") # {}

\* C11: an invocation for an artwork with download = false never fetches,
\* and the command of every startProcess it issues is start_command followed
\* by the artwork's url.
C11_NoFetchUrlCommand ==
    \A sw \in Switches :
        LET artwork == Artworks[switches[sw].artwork]
        IN  ~artwork._format.download =>
                /\ Idx(sw, "fetch") = {}
                /\ switches[sw].file = ""
                /\ \A j \in Idx(sw, "start") :
                      log[j].cmd = artwork._format.start_command \o <<artwork.url>>

C11_Witness ==
    \E sw \in Switches :
        /\ ~Artworks[switches[sw].artwork]._format.download
        /\ switches[sw].stage = "done"
        /\ Idx(sw, "start") # {}
        /\ \E other \in Switches : Idx(other, "fetch") # {}

\* C12: an invocation whose fetch failed has started no viewer, has not set
\* the current-artwork pointer, and its caller has received the failure.
C12_FetchFailurePropagates ==
    \A sw \in Switches :
        switches[sw].stage = "fetchFailed" =>
            /\ Idx(sw, "start") = {}
            /\ Idx(sw, "set") = {}
            /\ callerSaw[sw] # "returned"

\* C13: at most one invocation of changeArtwork is in flight (waiting for
\* its download) at any time.
C13_SingleFlight ==
    Cardinality({sw \in Switches : switches[sw].stage = "fetching"}) <= 1

\* ------------------------------------------------------------------------
\* Start-up chain: properties
\* ------------------------------------------------------------------------

\* positions of the entries ev of connLog
At(ev) == {i \in 1..Len(connLog) : connLog[i].ev = ev}

\* the DeviceRecord .ofrc held when fc.init was called
LocalAtInit == connLog[1]

\* the local DeviceRecord as an entry ev
LocalNow(ev) == Rec(ev, [id |-> frame.id, name |-> frame.name, plugins |-> frame.plugins,
                         art |-> frameArtwork])

\* C14: when the local record has no id, no find-by-id request is ever
\* issued, and once login has resolved a create request has been issued.
C14_NoIdGoesToRegister ==
    (connLog # <<>> /\ LocalAtInit.id = NoId) =>
        /\ At("findById") = {}
        /\ At("login:resolved") # {} => At("create") # {}

C14_Witness ==
    /\ connLog # <<>>
    /\ LocalAtInit.id = NoId
    /\ At("create") # {}
    /\ pc = "connected"

\* C15: a rejected find-by-id is directly followed by a create request that
\* carries the local name, the fixed plugin seed and the user id, and not
\* the id of the local record.
C15_FindFailureRegisters ==
    \A i \in At("findById:rejected") :
        /\ i + 1 \in At("create")
        /\ connLog[i + 1].name = LocalAtInit.name
        /\ connLog[i + 1].plugins = SeedPlugins
        /\ connLog[i + 1].id = NoId
        /\ connLog[i + 1].user = userId

C15_Witness ==
    /\ At("findById:rejected") # {}
    /\ LocalAtInit.id = "f1"
    /\ frame.id = "f2"

C17_LoginFailureAborts ==
    At("login:rejected") # {} =>
        /\ pc = "failed"
        /\ At("findById") = {} /\ At("create") = {}
        /\ At("pubsub.init") = {} /\ At("ready") = {}
        /\ switches = <<>> /\ log = <<>> /\ processStack = <<>>

C17_Witness ==
    /\ At("login:rejected") # {}
    /\ LocalAtInit.id = "f1"

\* C18: after a rejected create request the connect promise has rejected,
\* the chain is failed, pubsub is not initialised, ready and changeArtwork
\* have not run, and the local record is the one .ofrc held at the start.
C18_RegisterFailureIsFatal ==
    At("create:rejected") # {} =>
        /\ pc = "failed"
        /\ At("connect:rejected") # {}
        /\ At("pubsub.init") = {} /\ At("ready") = {}
        /\ switches = <<>> /\ log = <<>> /\ processStack = <<>>
        /\ LocalNow("init") = LocalAtInit

C18_Witness ==
    /\ At("create:rejected") # {}
    /\ At("findById:rejected") # {}
    /\ pc = "failed"

\* C19: when the installation of the plugins has failed after a successful
\* find-by-id or create, the connection is Connected (pubsub initialised,
\* ready called).
C19_ConnectedDespiteSyncFailure ==
    At("install:rejected") # {} =>
        /\ pc = "connected"
        /\ At("pubsub.init") # {} /\ At("ready") # {}

\* C20: when the connection is Connected, the local record is the one the
\* successful find-by-id or create returned, that record was saved before
\* pubsub was initialised, and pubsub.init and ready were each called once.
C20_ConnectedWithResolvedRecord ==
    pc = "connected" =>
        /\ Cardinality(At("findById:resolved") \cup At("create:resolved")) = 1
        /\ \A i \in At("findById:resolved") \cup At("create:resolved") :
              /\ LocalNow(connLog[i].ev) = connLog[i]
              /\ i + 1 \in At("save")
              /\ connLog[i + 1] = LocalNow("save")
              /\ \A k \in At("pubsub.init") : i + 1 < k
        /\ Cardinality(At("pubsub.init")) = 1
        /\ Cardinality(At("ready")) = 1

C20_Witness ==
    /\ pc = "connected"
    /\ At("findById:resolved") # {}
    /\ frame.name # LocalAtInit.name
    /\ frameArtwork # NoArt

\* C21: login, find-by-id and create are each requested at most once, and
\* once login or create has failed the chain is failed for good and nothing
\* more is requested or called.
C21_NoRetry ==
    /\ [](/\ Cardinality(At("login")) <= 1
          /\ Cardinality(At("findById")) <= 1
          /\ Cardinality(At("create")) <= 1
          /\ (At("login:rejected") # {} \/ At("create:rejected") # {}) => pc = "failed")
    /\ [][pc = "failed" => (pc' = "failed" /\ connLog' = connLog)]_vars

C21_Witness ==
    /\ pc = "failed"
    /\ Cardinality(At("login")) = 1
    /\ Cardinality(At("findById")) = 1
    /\ Cardinality(At("create")) = 1

\* C22: every find-by-id or create request issued after login resolved is
\* sent with the access_token stored in the credentials and added to the
\* client's authorizations.
C22_TokenAttached ==
    \A j \in At("findById") \cup At("create") :
        (\E i \in At("login:resolved") : i < j) =>
            /\ connLog[j].armed
            /\ creds # NoId
            /\ auth

\* ------------------------------------------------------------------------
\* Supervisor: exits and failed spawns
\* ------------------------------------------------------------------------

\* C23: when a tracked child exits, the step that handles its exit leaves its
\* pid out of the mapping and out of the active sequence.
C23_ExitRemoves ==
    [][\A pid \in alive \ alive' :
            /\ Key(pid) \notin DOMAIN processes'
            /\ pid \notin Range(processStack')]_vars

\* C24: a failed spawn never brings the supervisor down, and a startProcess
\* whose spawn failed has raised to its caller and left the mapping and the
\* sequence as they were before the call.
C24_SpawnFailureReported ==
    /\ ~crashed
    /\ (last.op = "startProcess" /\ last.pid = UNDEFINED) =>
            /\ last.raised
            /\ processes = last.procs
            /\ processStack = last.stack

\* ------------------------------------------------------------------------
\* Controller and supervisor together
\* ------------------------------------------------------------------------

\* C25: an invocation made while the frame's artwork is the one displayed
\* issues no fetch, no end_command and no start.
C25_SameArtworkIsNoOp ==
    \A sw \in Switches :
        switches[sw].artwork = switches[sw].curArt =>
            \A i \in 1..Len(log) : log[i].sw # sw

\* C26: the active sequence never holds more than one pid.
C26_AtMostOneActive == Len(processStack) <= 1

\* the command of the startProcess that came with the latest assignment of
\* the pointer
PointerCommand ==
    LET k == CHOOSE i \in 1..Len(log) :
                 /\ log[i].ev = "set"
                 /\ \A j \in 1..Len(log) : log[j].ev = "set" => j <= i
    IN  log[k - 1].cmd

\* C27: while the pointer names an artwork, the supervisor's current process
\* is the child spawned with the command that was started for that artwork.
C27_CurrentProcessShowsPointer ==
    current_artwork # NoArt =>
        /\ processStack # <<>>
        /\ LET child == processes[Key(getCurrentProcess)]
           IN  <<child.spawnfile>> \o child.spawnargs = PointerCommand

=============================================================================
